---- MODULE Spec2Model ----
(***************************************************************************)
(* JobHub: the hiring-slot accounting of job postings, the application     *)
(* rows and the time-boxed job offers, as state machines over the rows of  *)
(* the job_postings, applications and job_offers tables.                   *)
(*                                                                         *)
(* Spec      the postings and applications: every handler of               *)
(*           utils/job_management.py, utils/applications.py, utils/jobs.py *)
(*           and the screens that call them.  An accept is three SQL       *)
(*           statements (UPDATE applications, SELECT job_postings, UPDATE  *)
(*           job_postings); sessions run in their own threads, so the      *)
(*           statements of two sessions interleave.  Every statement is on *)
(*           one table, so a statement of another session between the      *)
(*           first two commutes with one of them: the first two are one    *)
(*           step, the UPDATE of the posting is the second.                *)
(* OfferSpec the job offers and the clock.                                 *)
(* AccountSpec  the users table: signup, authenticate and                  *)
(*           get_user_by_credentials.                                      *)
(* NoticeSpec   the congratulations of the job dashboard: accepted         *)
(*           applications, the congratulations_dismissed table, the clock. *)
(* MatchSpec the profile form, profile completion, Browse Job Seekers and  *)
(*           the job dashboard's Apply Now.  The JSON columns of a users   *)
(*           row are texts in the rows as fetched and lists after          *)
(*           User.get.                                                     *)
(***************************************************************************)
EXTENDS Integers, Sequences, FiniteSets, TLC

VARIABLES
    jobs,       \* job_postings: row id = index
    apps,       \* applications: row id = index
    sess,       \* per session: the accept call in progress and what it read
    ret,        \* what the call that returned last returned
    jobWrites,  \* history: per posting, the UPDATEs of hired_count executed
    offers,     \* job_offers: row id = index
    now,        \* the clock, in hours
    osess,      \* per session: the offer button whose click is being handled
    users,      \* users: row id = index
    current_user, \* st.session_state.current_user of the browsing session
    user_ret,   \* the user, or None, that the lookup that returned last returned
    job_seekers, \* ids of what get_job_seekers returned last
    dismissed,  \* congratulations_dismissed: (user_id, job_id, application_id)
    new_accepted \* ids of what get_new_accepted_applications returned last

vars == <<jobs, apps, sess, ret, jobWrites, offers, now, osess, users, current_user,
          user_ret, job_seekers, dismissed, new_accepted>>

\* The users table and the session's user: no handler of the postings, the
\* applications or the offers writes them.
accountVars == <<users, current_user, user_ret, job_seekers>>

\* The dismissals of the congratulations and the list last shown: only the
\* job dashboard writes them.
noticeVars == <<dismissed, new_accepted>>

----------------------------------------------------------------------------
(* Bounds of the model *)

MaxJobs == 1
MaxApps == 2
MaxRequired == 2
MaxHired == 2
MaxOffers == 1
MaxTime == 26

(* Program constants *)

MinCandidates == 1
MaxCandidates == 50
OfferHours == 24

Employers == {1, 2}
Seekers == {3}
Sessions == {"s1", "s2"}
JobTypes == {"Cook"}

\* Python's None and SQL's NULL in an integer column or argument.
None == -1
\* A key that the dict does not hold.
Absent == -2

ValidStatuses == {"pending", "accepted", "rejected"}

----------------------------------------------------------------------------
(* Rows *)

JobIds == 1..Len(jobs)
AppIds == 1..Len(apps)

\* JobPosting.get_by_id: the row, or None when there is none.
JobExists(job_id) == job_id \in JobIds
AppExists(app_id) == app_id \in AppIds

IdleSess == [pc |-> "idle", job |-> 0, hired |-> 0, required |-> 0]

\* No click on an offer's button is being handled.
NoClick == [offer |-> 0, status |-> ""]

----------------------------------------------------------------------------
(* utils/jobs.py, db/models.py: posting a job *)

validate_candidate_count(required_candidates) ==
    MinCandidates <= required_candidates /\ required_candidates <= MaxCandidates

validate_employer_id(employer_id) == employer_id > 0

\* The row JobDAO.insert_job writes.
insert_job(employer_id, job_type, required_candidates) ==
    [user_id |-> employer_id,
     status |-> "active",
     job_type |-> job_type,
     required_candidates |-> required_candidates,
     hired_count |-> 0,
     is_closed |-> FALSE,
     auto_closed |-> FALSE]

\* PostJobPage._handle_form_submission -> add_job_posting -> insert_job.
add_job_posting(employer_id, job_type, required_candidates, dbOk) ==
    /\ Len(jobs) < MaxJobs
    /\ IF validate_candidate_count(required_candidates)
          /\ validate_employer_id(employer_id) /\ dbOk
       THEN /\ jobs' = Append(jobs, insert_job(employer_id, job_type, required_candidates))
            /\ jobWrites' = Append(jobWrites, 0)
            /\ ret' = "True"
       ELSE /\ UNCHANGED <<jobs, jobWrites>>
            /\ ret' = "False"
    /\ UNCHANGED <<apps, sess, offers, now, osess, accountVars, noticeVars>>

----------------------------------------------------------------------------
(* db/models.py: the listings job seekers see *)

\* A variant of the WHERE clause without the is_closed test.
OpenForSeekersIgnoringClosed(job) ==
    /\ job.status = "active"
    /\ job.hired_count < job.required_candidates

\* The WHERE clause shared by list_all, search, get_recent and
\* fetch_employer_jobs.  No column of a row written by insert_job is NULL.
OpenForSeekers(job) ==
    /\ job.status = "active"
    /\ job.is_closed = FALSE
    /\ job.hired_count < job.required_candidates

list_all == {j \in JobIds : OpenForSeekers(jobs[j])}

\* filters.job_type: "" is the falsy "no filter".
search(job_type) ==
    {j \in JobIds : OpenForSeekers(jobs[j])
                    /\ (job_type # "" => jobs[j].job_type = job_type)}

\* ORDER BY posted_date DESC LIMIT limit: the `limit` newest open rows.
get_recent(limit) ==
    {j \in list_all : Cardinality({k \in list_all : k > j}) < limit}

\* JOIN users u ON jp.user_id = u.id
fetch_employer_jobs ==
    {j \in JobIds : jobs[j].user_id \in Employers /\ OpenForSeekers(jobs[j])}

----------------------------------------------------------------------------
(* utils/applications.py: saving an application *)

RequiredFields == {"job_id", "employer_id", "applicant_id"}

validate_application_data(data) ==
    \A f \in RequiredFields : data[f] # Absent /\ data[f] # None

\* A variant that defaults nothing.
prepare_application_data_as_given(data) == data

\* setdefault("status", "pending"); setdefault("applied_date", datetime.now())
prepare_application_data(data) ==
    [data EXCEPT !.status = IF @ = "absent" THEN "pending" ELSE @,
                 !.applied_date = IF @ = Absent THEN now ELSE @]

\* Application.create: the row of an INSERT whose columns are the dict's keys;
\* a column that is not among them is NULL.
ApplicationRow(data) ==
    [job_id |-> data.job_id,
     employer_id |-> data.employer_id,
     applicant_id |-> data.applicant_id,
     status |-> IF data.status = "absent" THEN "NULL" ELSE data.status,
     applied_date |-> IF data.applied_date = Absent THEN None ELSE data.applied_date,
     response_date |-> None]

\* ApplicationService.save_application.  A failed INSERT makes db_operation
\* return None, and `None > 0` raises TypeError.
save_application(data, dbOk) ==
    IF ~validate_application_data(data)
    THEN /\ ret' = "False"
         /\ UNCHANGED apps
    ELSE IF dbOk
         THEN /\ Len(apps) < MaxApps
              /\ apps' = Append(apps, ApplicationRow(prepare_application_data(data)))
              /\ ret' = "True"
         ELSE /\ ret' = "TypeError"
              /\ UNCHANGED apps

save_job_application(data, dbOk) ==
    /\ UNCHANGED <<jobs, sess, jobWrites, offers, now, osess, accountVars, noticeVars>>
    /\ save_application(data, dbOk)

\* JobApplicationManager.create_application_data
create_application_data(job_id, user_id) ==
    [job_id |-> job_id,
     employer_id |-> jobs[job_id].user_id,
     applicant_id |-> user_id,
     status |-> "pending",
     applied_date |-> now]

\* JobApplicationManager.get_applied_jobs_set
get_applied_jobs_set(user_id) ==
    {<<apps[a].job_id, apps[a].employer_id>> : a \in {b \in AppIds : apps[b].applicant_id = user_id}}

\* JobDashboardRenderer.render_job_tabs: the "Apply Now" button of a listed job
\* the user has not applied to.
ApplyNow(user_id, job_id, dbOk) ==
    /\ job_id \in fetch_employer_jobs
    /\ <<job_id, jobs[job_id].user_id>> \notin get_applied_jobs_set(user_id)
    /\ save_application(create_application_data(job_id, user_id), dbOk)
    /\ UNCHANGED <<jobs, sess, jobWrites, offers, now, osess, accountVars, noticeVars>>

----------------------------------------------------------------------------
(* utils/applications.py, db/models.py: the status of an application *)

\* A variant that checks the id alone.
validate_status_update_id_only(app_id, status) ==
    app_id # None /\ app_id > 0

validate_status_update(app_id, status) ==
    app_id # None /\ app_id > 0 /\ status \in ValidStatuses

\* Application.update_status: UPDATE applications SET status, response_message,
\* response_date = NOW() WHERE id.  cur.rowcount is 0 when no row has the id;
\* for a row that already holds the status and the date it is 1 or 0, as the
\* message (not kept in the model) or the seconds of NOW() differ from the
\* row's or not.
UpdateStatusRowcounts(app_id, status) ==
    IF ~AppExists(app_id) THEN {0}
    ELSE IF apps[app_id].status = status /\ apps[app_id].response_date = now
         THEN {0, 1}
         ELSE {1}

UpdateStatusRow(app_id, status) ==
    IF AppExists(app_id)
    THEN [apps EXCEPT ![app_id].status = status, ![app_id].response_date = now]
    ELSE apps

\* ApplicationService.update_status: `result > 0` with result None raises.
update_status(app_id, status, dbOk) ==
    IF ~validate_status_update(app_id, status)
    THEN /\ ret' = "False"
         /\ UNCHANGED apps
    ELSE IF ~dbOk
         THEN /\ ret' = "TypeError"
              /\ UNCHANGED apps
         ELSE \E rowcount \in UpdateStatusRowcounts(app_id, status) :
                 /\ apps' = UpdateStatusRow(app_id, status)
                 /\ ret' = IF rowcount > 0 THEN "True" ELSE "False"

update_application_status(app_id, status, dbOk) ==
    /\ UNCHANGED <<jobs, sess, jobWrites, offers, now, osess, accountVars, noticeVars>>
    /\ update_status(app_id, status, dbOk)

\* JobManager.reject_application: returns the rowcount itself, or None.
reject_application(application_id, dbOk) ==
    /\ IF dbOk
       THEN \E rowcount \in UpdateStatusRowcounts(application_id, "rejected") :
               /\ apps' = UpdateStatusRow(application_id, "rejected")
               /\ ret' = IF rowcount > 0 THEN "1" ELSE "0"
       ELSE /\ ret' = "None"
            /\ UNCHANGED apps
    /\ UNCHANGED <<jobs, sess, jobWrites, offers, now, osess, accountVars, noticeVars>>

\* ApplicationService.reject_application: update_status inside try/except.
ApplicationService_reject_application(app_id, dbOk) ==
    /\ IF validate_status_update(app_id, "rejected") /\ dbOk
       THEN \E rowcount \in UpdateStatusRowcounts(app_id, "rejected") :
               /\ apps' = UpdateStatusRow(app_id, "rejected")
               /\ ret' = IF rowcount > 0 THEN "True" ELSE "False"
       ELSE /\ ret' = "False"
            /\ UNCHANGED apps
    /\ UNCHANGED <<jobs, sess, jobWrites, offers, now, osess, accountVars, noticeVars>>

----------------------------------------------------------------------------
(* utils/job_management.py, utils/applications.py: accepting an application *)

\* JobPosting.update: cur.rowcount of UPDATE job_postings SET ... WHERE id, the
\* rows the statement changed.  A row that already holds the values counts 0,
\* unless closed_date (not kept in the model) is among the columns: then 1 or
\* 0, as the date written differs from the row's or not.
JobUpdateRowcounts(job_id, row, closed_date) ==
    IF ~JobExists(job_id) THEN {0}
    ELSE IF jobs[job_id] # row THEN {1}
    ELSE IF closed_date THEN {0, 1} ELSE {0}

\* The calls in flight on a posting (bounds hired_count in the model).
InFlight(job_id) ==
    Cardinality({s \in Sessions : sess[s].pc # "idle" /\ sess[s].job = job_id})

HiredBound(job_id) ==
    JobExists(job_id) => jobs[job_id].hired_count + InFlight(job_id) < MaxHired

\* The ownership test without the comparison of user_id.
AuthorizedAnyEmployer(job_id, employer_id, dbOk) ==
    dbOk /\ JobExists(job_id)

\* job_model.get_by_id and the ownership test
\* str(job.get('user_id')) != str(employer_id).
Authorized(job_id, employer_id, dbOk) ==
    dbOk /\ JobExists(job_id) /\ jobs[job_id].user_id = employer_id

\* The end of the first step of an accept: the posting was read and is the
\* employer's, or the call returns False.
ReadJob(s, job_id, employer_id, dbOk) ==
    IF Authorized(job_id, employer_id, dbOk)
    THEN /\ sess' = [sess EXCEPT ![s] = [pc |-> "update_job",
                                         job |-> job_id,
                                         hired |-> jobs[job_id].hired_count,
                                         required |-> jobs[job_id].required_candidates]]
         /\ UNCHANGED ret
    ELSE /\ ret' = "False"
         /\ UNCHANGED sess

\* What the database does to the statements of a call: all succeed, the
\* UPDATE of the application fails, or the SELECT of the posting fails.
DbOutcomes == {"ok", "update_fails", "select_fails"}

\* A variant of accept_application that returns early for an application
\* already accepted.
accept_application_once(s, application_id, job_id, employer_id, db) ==
    /\ sess[s].pc = "idle"
    /\ HiredBound(job_id)
    /\ IF db # "update_fails"
          /\ ~(AppExists(application_id) /\ apps[application_id].status = "accepted")
       THEN \E rowcount \in UpdateStatusRowcounts(application_id, "accepted") :
               /\ apps' = UpdateStatusRow(application_id, "accepted")
               /\ IF rowcount > 0
                  THEN ReadJob(s, job_id, employer_id, db = "ok")
                  ELSE /\ ret' = "False"
                       /\ UNCHANGED sess
       ELSE /\ ret' = "False"
            /\ UNCHANGED <<apps, sess>>
    /\ UNCHANGED <<jobs, jobWrites, offers, now, osess, accountVars, noticeVars>>

\* JobManager.accept_application, lines 73-83: the status UPDATE, unvalidated,
\* then the posting is read.
accept_application(s, application_id, job_id, employer_id, db) ==
    /\ sess[s].pc = "idle"
    /\ HiredBound(job_id)
    /\ IF db # "update_fails"
       THEN \E rowcount \in UpdateStatusRowcounts(application_id, "accepted") :
               /\ apps' = UpdateStatusRow(application_id, "accepted")
               /\ IF rowcount > 0
                  THEN ReadJob(s, job_id, employer_id, db = "ok")
                  ELSE /\ ret' = "False"
                       /\ UNCHANGED sess
       ELSE /\ ret' = "False"
            /\ UNCHANGED <<apps, sess>>
    /\ UNCHANGED <<jobs, jobWrites, offers, now, osess, accountVars, noticeVars>>

validate_job_update_params(app_id, job_id, employer_id) ==
    /\ app_id # None /\ app_id > 0
    /\ job_id # None /\ job_id > 0
    /\ employer_id # None

Falsy(x) == x = None \/ x = 0

\* ApplicationService.accept_application, lines 201-216, and
\* update_job_on_acceptance, lines 61-68: the ids not given are taken from the
\* application row, then the validated status UPDATE, then the posting is read.
ApplicationService_accept_application(s, app_id, job_id, employer_id, db) ==
    LET fetch == Falsy(job_id) \/ Falsy(employer_id)
        found == db # "update_fails" /\ AppExists(app_id)
        j == IF Falsy(job_id) /\ found THEN apps[app_id].job_id ELSE job_id
        e == IF Falsy(employer_id) /\ found THEN apps[app_id].employer_id ELSE employer_id
        valid == (fetch => found) /\ validate_job_update_params(app_id, j, e)
                 /\ validate_status_update(app_id, "accepted")
    IN  /\ sess[s].pc = "idle"
        /\ HiredBound(j)
        /\ IF valid /\ db # "update_fails"
           THEN \E rowcount \in UpdateStatusRowcounts(app_id, "accepted") :
                   /\ apps' = UpdateStatusRow(app_id, "accepted")
                   /\ IF rowcount > 0
                      THEN ReadJob(s, j, e, db = "ok")
                      ELSE /\ ret' = "False"
                           /\ UNCHANGED sess
           ELSE /\ ret' = "False"
                /\ UNCHANGED <<apps, sess>>
        /\ UNCHANGED <<jobs, jobWrites, offers, now, osess, accountVars, noticeVars>>

\* if new_hired_count >= required_candidates
ClosesJob(current_hired, required_candidates) ==
    current_hired + 1 >= required_candidates

\* Variants of update_data with a plausible slip each: the closing columns
\* added whatever the count, `>` for `>=`, and the count taken from the row at
\* the time of the write.
HiringUpdateAlwaysCloses(row, current_hired, required_candidates) ==
    [row EXCEPT !.hired_count = current_hired + 1,
                !.is_closed = TRUE,
                !.auto_closed = TRUE]

HiringUpdateStrict(row, current_hired, required_candidates) ==
    IF current_hired + 1 > required_candidates
    THEN [row EXCEPT !.hired_count = current_hired + 1,
                     !.is_closed = TRUE,
                     !.auto_closed = TRUE]
    ELSE [row EXCEPT !.hired_count = current_hired + 1]

HiringUpdateInPlace(row, current_hired, required_candidates) ==
    IF row.hired_count + 1 >= required_candidates
    THEN [row EXCEPT !.hired_count = @ + 1,
                     !.is_closed = TRUE,
                     !.auto_closed = TRUE]
    ELSE [row EXCEPT !.hired_count = @ + 1]

\* update_data of accept_application (85-92) and of update_job_on_acceptance
\* (71-79), applied to the row.
HiringUpdate(row, current_hired, required_candidates) ==
    IF ClosesJob(current_hired, required_candidates)
    THEN [row EXCEPT !.hired_count = current_hired + 1,
                     !.is_closed = TRUE,
                     !.auto_closed = TRUE]
    ELSE [row EXCEPT !.hired_count = current_hired + 1]

\* job_model.update(job_id, update_data) and the return (job_management.py
\* 94-103, applications.py 82-91): what the call writes comes from what it read.
update_job(s, dbOk) ==
    LET j == sess[s].job
        row == HiringUpdate(jobs[j], sess[s].hired, sess[s].required)
    IN  /\ sess[s].pc = "update_job"
        /\ IF dbOk
           THEN \E rowcount \in JobUpdateRowcounts(j, row,
                                     ClosesJob(sess[s].hired, sess[s].required)) :
                   /\ jobs' = [jobs EXCEPT ![j] = row]
                   /\ jobWrites' = [jobWrites EXCEPT ![j] = @ + 1]
                   /\ ret' = IF rowcount > 0 THEN "True" ELSE "False"
           ELSE /\ ret' = "False"
                /\ UNCHANGED <<jobs, jobWrites>>
        /\ sess' = [sess EXCEPT ![s] = IdleSess]
        /\ UNCHANGED <<apps, offers, now, osess, accountVars, noticeVars>>

----------------------------------------------------------------------------
(* utils/job_management.py: closing and deleting a posting *)

\* What the two handlers return: (success, message).
NotFoundOrUnauthorized == "(False, 'Job not found or unauthorized')"
ClosedSuccessfully == "(True, 'Job posting closed successfully')"
FailedToClose == "(False, 'Failed to close job posting')"
DeletedSuccessfully == "(True, 'Job posting deleted successfully')"
FailedToDelete == "(False, 'Failed to delete job posting')"

CloseUpdate(row) == [row EXCEPT !.is_closed = TRUE, !.auto_closed = FALSE]

close_job_posting(job_id, employer_id, db) ==
    /\ UNCHANGED <<apps, sess, jobWrites, offers, now, osess, accountVars, noticeVars>>
    /\ IF Authorized(job_id, employer_id, db # "select_fails")
       THEN IF db = "update_fails"
            THEN /\ ret' = FailedToClose
                 /\ UNCHANGED jobs
            ELSE \E rowcount \in JobUpdateRowcounts(job_id, CloseUpdate(jobs[job_id]), TRUE) :
                    /\ jobs' = [jobs EXCEPT ![job_id] = CloseUpdate(@)]
                    /\ ret' = IF rowcount > 0 THEN ClosedSuccessfully ELSE FailedToClose
       ELSE /\ ret' = NotFoundOrUnauthorized
            /\ UNCHANGED jobs

\* A row with only the status replaced and a row with the hiring fields reset
\* as well.
DeleteUpdateAndReset(row) ==
    [row EXCEPT !.status = "deleted", !.is_closed = TRUE]

DeleteUpdate(row) == [row EXCEPT !.status = "deleted"]

delete_job_posting(job_id, employer_id, db) ==
    /\ UNCHANGED <<apps, sess, jobWrites, offers, now, osess, accountVars, noticeVars>>
    /\ IF Authorized(job_id, employer_id, db # "select_fails")
       THEN IF db = "update_fails"
            THEN /\ ret' = FailedToDelete
                 /\ UNCHANGED jobs
            ELSE \E rowcount \in JobUpdateRowcounts(job_id, DeleteUpdate(jobs[job_id]), FALSE) :
                    /\ jobs' = [jobs EXCEPT ![job_id] = DeleteUpdate(@)]
                    /\ ret' = IF rowcount > 0 THEN DeletedSuccessfully ELSE FailedToDelete
       ELSE /\ ret' = NotFoundOrUnauthorized
            /\ UNCHANGED jobs

\* JobPosting.list_by_user: the ids of the employer's postings.
list_by_user(user_id) == {j \in JobIds : jobs[j].user_id = user_id}

\* The ids of the postings that get_employer_posts_with_applications returns.
get_employer_posts_with_applications(employer_id, include_deleted) ==
    IF ~include_deleted
    THEN {j \in list_by_user(employer_id) : jobs[j].status # "deleted"}
    ELSE list_by_user(employer_id)

\* JobManager._determine_post_status
_determine_post_status(post, hired_count, required_candidates) ==
    IF post.status = "deleted" THEN "deleted"
    ELSE IF post.is_closed
         THEN (IF post.auto_closed THEN "auto_closed" ELSE "manually_closed")
    ELSE IF hired_count >= required_candidates THEN "filled"
    ELSE IF hired_count > 0 THEN "partially_filled"
    ELSE "open"

\* post_status of get_employer_posts_with_applications: the posting's own counts.
post_status(post) ==
    _determine_post_status(post, post.hired_count, post.required_candidates)

----------------------------------------------------------------------------
(* utils/offers.py, screens/offer_job.py: making an offer *)

OfferIds == 1..Len(offers)
OfferExists(offer_id) == offer_id \in OfferIds

\* if field not in offer_data or not offer_data[field]
Truthy(x) == x \notin {Absent, None, 0}

validate_offer_data(offer_data) ==
    /\ offer_data.job_title # ""
    /\ offer_data.location # ""
    /\ Truthy(offer_data.employer_id) /\ offer_data.employer_id > 0
    /\ Truthy(offer_data.job_seeker_id) /\ offer_data.job_seeker_id > 0
    /\ Truthy(offer_data.salary_offered) /\ offer_data.salary_offered > 0

\* OfferDataManager.create_offer_data: one reading of the clock for both dates.
create_offer_data(user, candidate) ==
    [job_title |-> "Cook",
     location |-> "Indore",
     salary_offered |-> 1,
     employer_id |-> user,
     job_seeker_id |-> candidate,
     offered_date |-> now,
     expires_at |-> now + OfferHours,
     status |-> "pending"]

\* OfferDataProcessor.add_default_fields: the clock is read once for
\* offered_date (first_now) and once more for expires_at (second_now).
add_default_fields(offer_data, first_now, second_now) ==
    [offer_data EXCEPT
        !.status = IF @ = "absent" THEN "pending" ELSE @,
        !.offered_date = IF @ = Absent THEN first_now ELSE @,
        !.expires_at = IF @ = Absent THEN second_now + OfferHours ELSE @]

\* JobOffer.create: the columns of the row that the model keeps.
OfferRow(data) ==
    [job_seeker_id |-> data.job_seeker_id,
     status |-> data.status,
     offered_date |-> data.offered_date,
     expires_at |-> data.expires_at]

\* OfferService.save_offer: `new_id is not None and new_id > 0`.  The clock may
\* advance between the two readings of add_default_fields.
save_job_offer(offer_data, dbOk, second_now) ==
    /\ second_now \in {now, now + 1}
    /\ second_now <= MaxTime
    /\ IF validate_offer_data(offer_data) /\ dbOk
       THEN /\ Len(offers) < MaxOffers
            /\ offers' = Append(offers,
                                OfferRow(add_default_fields(offer_data, now, second_now)))
            /\ now' = second_now
            /\ ret' = "True"
       ELSE /\ ret' = "False"
            /\ UNCHANGED <<offers, now>>
    /\ UNCHANGED <<jobs, apps, sess, jobWrites, osess, accountVars, noticeVars>>

----------------------------------------------------------------------------
(* screens/job_dashboard.py, screens/my_applications.py: answering an offer *)

\* JobOfferManager.is_offer_active
is_offer_active(offer) ==
    IF offer.expires_at # None THEN now <= offer.expires_at
    ELSE IF offer.offered_date # None THEN now <= offer.offered_date + OfferHours
    ELSE FALSE

get_active_offers_for_user(user_id) ==
    {o \in OfferIds : /\ offers[o].job_seeker_id = user_id
                      /\ offers[o].status = "pending"
                      /\ is_offer_active(offers[o])}

\* DateTimeHelper.safe_datetime
safe_datetime(value) == IF value = None THEN now ELSE value

\* The script run of a click on Accept or Decline in "Job Offers for You":
\* the offer is among the active ones, so its button exists and reports the
\* click; what follows is the call of update_offer_status.
render_active_offers(s, user, offer_id, status) ==
    /\ osess[s] = NoClick
    /\ offer_id \in get_active_offers_for_user(user)
    /\ osess' = [osess EXCEPT ![s] = [offer |-> offer_id, status |-> status]]
    /\ UNCHANGED <<jobs, apps, sess, ret, jobWrites, offers, now, accountVars, noticeVars>>

\* The same on "My Applications": render_offer_card shows the buttons of an
\* offer that is pending and not is_expired.
render_offer_card(s, offer_id, status) ==
    /\ osess[s] = NoClick
    /\ OfferExists(offer_id)
    /\ offers[offer_id].status = "pending"
    /\ ~(now > safe_datetime(offers[offer_id].expires_at))
    /\ osess' = [osess EXCEPT ![s] = [offer |-> offer_id, status |-> status]]
    /\ UNCHANGED <<jobs, apps, sess, ret, jobWrites, offers, now, accountVars, noticeVars>>

validate_offer_id(offer_id) == offer_id > 0

validate_status(status) == status \in {"pending", "accepted", "rejected", "expired"}

\* OfferService.update_status -> JobOffer.update_status: UPDATE job_offers SET
\* status, response_message, response_date = NOW() WHERE id.
update_offer_status(s, dbOk) ==
    LET offer_id == osess[s].offer
        status == osess[s].status
    IN  /\ osess[s] # NoClick
        /\ IF validate_offer_id(offer_id) /\ validate_status(status) /\ dbOk
           THEN /\ offers' = [offers EXCEPT ![offer_id].status = status]
                /\ \E rowcount \in (IF offers[offer_id].status = status THEN {0, 1} ELSE {1}) :
                      ret' = IF rowcount > 0 THEN "True" ELSE "False"
           ELSE /\ ret' = "False"
                /\ UNCHANGED offers
        /\ osess' = [osess EXCEPT ![s] = NoClick]
        /\ UNCHANGED <<jobs, apps, sess, jobWrites, now, accountVars, noticeVars>>

\* The clock: an hour passes.
Tick ==
    /\ now < MaxTime
    /\ now' = now + 1
    /\ UNCHANGED <<jobs, apps, sess, ret, jobWrites, offers, osess, accountVars, noticeVars>>

----------------------------------------------------------------------------
(* screens/job_dashboard.py: the congratulations of a hired job seeker *)

MaxDays == 8

CongratsDays == 7
HoursPerDay == 24

\* CongratsStorage.is_dismissed: whether congratulations_dismissed has the
\* row; when the SELECT raises, the except branch answers False.
is_dismissed(user_id, job_id, app_id, dbOk) ==
    IF dbOk THEN <<user_id, job_id, app_id>> \in dismissed
    ELSE FALSE

\* CongratsStorage.mark_dismissed: the table after the INSERT ... ON DUPLICATE
\* KEY UPDATE; the call returns dbOk.
mark_dismissed(user_id, job_id, app_id, dbOk) ==
    IF dbOk THEN dismissed \cup {<<user_id, job_id, app_id>>}
    ELSE dismissed

\* time_diff.total_seconds() <= 7 * 24 * 3600, for a response_date that is set.
accepted_recently(response_date) ==
    /\ response_date # None
    /\ now - response_date <= CongratsDays * HoursPerDay

\* HiredNotificationManager.get_new_accepted_applications: the ids of the
\* applications listed.  failing: the applications whose dismissal lookup
\* raises in this call.
get_new_accepted_applications(user_id, failing) ==
    {a \in AppIds :
        /\ apps[a].applicant_id = user_id
        /\ apps[a].status = "accepted"
        /\ ~is_dismissed(user_id, apps[a].job_id, a, a \notin failing)
        /\ accepted_recently(apps[a].response_date)}

\* JobDashboardRenderer.render_congratulations_section, with no click on a
\* dismissal button.  When the SELECT of the applications fails, stream_all
\* returns None and the list comprehension raises: nothing is listed.
render_congratulations_section(user_id, failing, appsOk) ==
    /\ UNCHANGED <<jobs, apps, sess, ret, jobWrites, offers, now, osess, accountVars,
                   dismissed>>
    /\ IF appsOk
       THEN new_accepted' = get_new_accepted_applications(user_id, failing)
       ELSE UNCHANGED new_accepted

\* HiredNotificationManager.show_congratulations_popup: the run in which the
\* "Thank You! Got It!" button of a listed application reports its click.
show_congratulations_popup(user_id, app_id, failing, dbOk) ==
    /\ app_id \in get_new_accepted_applications(user_id, failing)
    /\ new_accepted' = get_new_accepted_applications(user_id, failing)
    /\ dismissed' = mark_dismissed(user_id, apps[app_id].job_id, app_id, dbOk)
    /\ UNCHANGED <<jobs, apps, sess, ret, jobWrites, offers, now, osess, accountVars>>

\* The clock: a day passes.
TickDay ==
    /\ now + HoursPerDay <= MaxDays * HoursPerDay
    /\ now' = now + HoursPerDay
    /\ UNCHANGED <<jobs, apps, sess, ret, jobWrites, offers, osess, accountVars,
                   noticeVars>>

----------------------------------------------------------------------------
(* utils/auth.py, screens/signup.py, screens/login.py: accounts *)

MaxUsers == 2

Roles == {"job", "hire"}
Names == {"Asha", "asha"}
Phones == {"9000000001", "9000000002"}
Emails == {"a@x.in", "b@x.in"}
Passwords == {"Pw@1", "Pw@2"}

\* str.lower() and str.strip() on the strings of the model.
lower(s) == CASE s \in {"Asha", "ASHA"} -> "asha"
              [] s = "PW@1" -> "pw@1"
              [] s = "Pw@1" -> "pw@1"
              [] s = "Pw@2" -> "pw@2"
              [] s = "JOB" -> "job"
              [] OTHER -> s
strip(s) == CASE s = " asha " -> "asha"
              [] s = " " -> ""
              [] OTHER -> s

\* Python's None where a user dict is expected.
NoUser == [id |-> 0, role |-> "", name |-> "", phone |-> "", email |-> "",
           password |-> ""]

UserIds == 1..Len(users)

\* NULL in a text column, None for a str in a dict.
NullText == "NULL"

\* The value of a JSON column and of its key in a user dict: NULL (None), the
\* text stored (a str), or the list that json.loads makes of the text.
JsonNull == [none |-> TRUE]
JsonText(s) == [str |-> s]
JsonList(l) == [list |-> l]

\* json.dumps and json.loads on the lists of the model; json.loads raises on
\* any other text.
json_dumps(l) == CASE l = <<>> -> "[]"
                   [] l = <<"Cook">> -> "[\"Cook\"]"
                   [] l = <<"Full Time">> -> "[\"Full Time\"]"
JsonTexts == {"[]", "[\"Cook\"]", "[\"Full Time\"]"}
json_loads(s) == CASE s = "[]" -> <<>>
                   [] s = "[\"Cook\"]" -> <<"Cook">>
                   [] s = "[\"Full Time\"]" -> <<"Full Time">>

json_columns == {"job_types", "availability"}

\* User.create: the row of the INSERT; a column that is not among the keys of
\* the dict is NULL.
UserRow(data) ==
    [id |-> data.id, role |-> data.role, name |-> data.name, phone |-> data.phone,
     email |-> data.email, password |-> data.password,
     aadhaar |-> NullText, address |-> NullText, city |-> NullText,
     experience |-> NullText, expected_salary |-> None,
     job_types |-> JsonNull, availability |-> JsonNull]

\* What User.get makes of a JSON column of the row it fetched.
parsed_json(value) ==
    IF "str" \in DOMAIN value /\ value.str # ""
    THEN (IF value.str \in JsonTexts THEN JsonList(json_loads(value.str))
          ELSE JsonList(<<>>))
    ELSE JsonList(<<>>)

\* User.get: the row as a dict, its JSON columns parsed; None without a row.
parsed_row(row) ==
    [row EXCEPT !.job_types = parsed_json(@), !.availability = parsed_json(@)]

User_get(user_id) ==
    IF user_id \in UserIds THEN parsed_row(users[user_id]) ELSE NoUser

AuthenticationValidator_validate_credentials(identifier, password, role) ==
    IF identifier = "" \/ password = "" \/ role = "" THEN FALSE
    ELSE IF role \notin {"job", "hire"} THEN FALSE
    ELSE TRUE

\* A lookup by role alone.
find_users_by_role(role, password) ==
    SelectSeq(users, LAMBDA u : u.role = role)

\* SELECT * FROM users WHERE role=%s AND password=%s, in row order.
find_users_by_role_and_password(role, password) ==
    SelectSeq(users, LAMBDA u : u.role = role /\ u.password = password)

\* The first of the rows whose name, lower-cased, or whose phone is the
\* identifier.
match_user_by_identifier(found, identifier) ==
    LET identifier_lower == lower(identifier)
        hits == {i \in 1..Len(found) :
                    \/ identifier_lower = lower(found[i].name)
                    \/ identifier = found[i].phone}
    IN  IF hits = {} THEN NoUser
        ELSE found[CHOOSE i \in hits : \A k \in hits : i <= k]

authenticate_user(identifier, password, role) ==
    IF ~AuthenticationValidator_validate_credentials(identifier, password, role)
    THEN NoUser
    ELSE LET found == find_users_by_role_and_password(role, password)
         IN  IF found = <<>> THEN NoUser
             ELSE match_user_by_identifier(found, identifier)

\* The public helper, called: the variable user_ret holds what it returned.
\* The SELECT is not under db_operation: when it fails the call raises and
\* returns nothing.
authenticate(identifier, pwd, role, dbOk) ==
    /\ UNCHANGED <<jobs, apps, sess, ret, jobWrites, offers, now, osess, users,
                   current_user, job_seekers, noticeVars>>
    /\ IF dbOk \/ ~AuthenticationValidator_validate_credentials(identifier, pwd, role)
       THEN user_ret' = authenticate_user(identifier, pwd, role)
       ELSE UNCHANGED user_ret

\* User.get_by_email and User.get_by_phone: fetchone() of the SELECT, None
\* when the table has no such row or the statement fails.
get_by_email(email, dbOk) ==
    LET hits == {i \in UserIds : users[i].email = email}
    IN  IF dbOk /\ hits # {} THEN users[CHOOSE i \in hits : \A k \in hits : i <= k]
        ELSE NoUser

get_by_phone(phone, dbOk) ==
    LET hits == {i \in UserIds : users[i].phone = phone}
    IN  IF dbOk /\ hits # {} THEN users[CHOOSE i \in hits : \A k \in hits : i <= k]
        ELSE NoUser

\* db/models.py: get_user_by_credentials, called.
get_user_by_credentials(email_or_phone, password, dbOk) ==
    /\ UNCHANGED <<jobs, apps, sess, ret, jobWrites, offers, now, osess, users,
                   current_user, job_seekers, noticeVars>>
    /\ LET user == get_by_email(email_or_phone, dbOk)
       IN  user_ret' = IF user = NoUser THEN get_by_phone(email_or_phone, dbOk)
                       ELSE user

\* SignupValidator.validate_form_data, as far as the fields of the model go.
validate_form_data(form_data, role) ==
    /\ strip(form_data.name) # ""
    /\ strip(form_data.phone) # ""
    /\ strip(form_data.email) # ""
    /\ strip(form_data.password) # ""
    /\ strip(form_data.password) = strip(form_data.confirm_password)

\* SELECT id FROM users WHERE phone = %s OR email = %s
check_existing_user(phone, email) ==
    \E i \in UserIds : users[i].phone = phone \/ users[i].email = lower(email)

create_user_data(form_data, role, user_id) ==
    [id |-> user_id, role |-> role, name |-> strip(form_data.name),
     phone |-> strip(form_data.phone), email |-> strip(form_data.email),
     password |-> strip(form_data.password)]

\* The Create Account button of the signup page.
_handle_signup_attempt(form_data, role, dbOk) ==
    /\ Len(users) < MaxUsers
    /\ IF /\ validate_form_data(form_data, role)
          /\ ~check_existing_user(form_data.phone, form_data.email)
          /\ dbOk
       THEN LET user_data == create_user_data(form_data, role, Len(users) + 1)
            IN  /\ users' = Append(users, UserRow(user_data))
                /\ current_user' = parsed_row(UserRow(user_data))
       ELSE UNCHANGED <<users, current_user>>
    /\ UNCHANGED <<jobs, apps, sess, ret, jobWrites, offers, now, osess, user_ret,
                   job_seekers, noticeVars>>

\* The Login button of the login page.
_process_login_attempt(identifier, password, role) ==
    /\ IF identifier = "" \/ password = ""
       THEN UNCHANGED current_user
       ELSE LET user == authenticate_user(strip(identifier), strip(password), role)
            IN  IF user # NoUser THEN current_user' = user
                ELSE UNCHANGED current_user
    /\ UNCHANGED <<jobs, apps, sess, ret, jobWrites, offers, now, osess, users,
                   user_ret, job_seekers, noticeVars>>

----------------------------------------------------------------------------
(* utils/auth.py, screens/profile.py, screens/browse_seekers.py,             *)
(* screens/job_dashboard.py: profile completion and matching                 *)

DefaultSalary == 15000
FullCompletion == 100

job_seeker_fields ==
    <<"name", "phone", "email", "aadhaar", "address", "city", "experience",
      "job_types", "expected_salary", "availability">>
employer_fields ==
    <<"name", "phone", "email", "company_name", "company_type", "address", "city",
      "business_description">>

get_required_fields(role) ==
    IF role = "job" THEN job_seeker_fields ELSE employer_fields

\* `if user.get(field)`: the key is there and its value is not None, not '',
\* not 0 and not [].  A str that spells a list, '[]' too, is not empty.
field_filled(user, field) ==
    IF field \notin DOMAIN user THEN FALSE
    ELSE IF field \in json_columns
         THEN LET value == user[field]
              IN  IF "list" \in DOMAIN value THEN value.list # <<>>
                  ELSE IF "str" \in DOMAIN value THEN value.str # ""
                  ELSE FALSE
    ELSE IF field = "expected_salary" THEN user[field] \notin {None, 0}
    ELSE user[field] \notin {NullText, ""}

\* ProfileCompletionCalculator.calculate_completion:
\* int((completed / len(required_fields)) * 100)
calculate_completion(user) ==
    LET required_fields == get_required_fields(user.role)
        completed == Cardinality({k \in 1..Len(required_fields) :
                                     field_filled(user, required_fields[k])})
    IN  (completed * 100) \div Len(required_fields)

calculate_profile_completion(user) == calculate_completion(user)

\* JobSeekersDataManager.get_job_seekers: the ids of the rows of SELECT * FROM
\* users WHERE role='job', as fetched, whose completion is 100.
get_job_seekers ==
    {i \in UserIds :
        users[i].role = "job" /\ calculate_profile_completion(users[i]) = FullCompletion}

\* The call: the SELECT is not under db_operation, a failure raises.
JobSeekersDataManager_get_job_seekers(dbOk) ==
    /\ IF dbOk THEN job_seekers' = get_job_seekers ELSE UNCHANGED job_seekers
    /\ UNCHANGED <<jobs, apps, sess, ret, jobWrites, offers, now, osess, users,
                   current_user, user_ret, noticeVars>>

validate_phone(phone) == phone \in Phones
validate_aadhaar(aadhaar) == aadhaar = "123412341234"

validate_job_seeker_profile(phone, aadhaar) ==
    validate_phone(phone) /\ (aadhaar = "" \/ validate_aadhaar(aadhaar))

\* User.update: the row after UPDATE users SET ... WHERE id; a list is stored
\* as its JSON text.
UserUpdateRow(row, updates) ==
    [row EXCEPT !.name = updates.name, !.phone = updates.phone,
                !.email = updates.email, !.aadhaar = updates.aadhaar,
                !.address = updates.address, !.city = updates.city,
                !.experience = updates.experience,
                !.expected_salary = updates.expected_salary,
                !.job_types = JsonText(json_dumps(updates.job_types)),
                !.availability = JsonText(json_dumps(updates.availability))]

\* The Save Profile button of a job seeker's profile page:
\* ProfileManager.save_job_seeker_profile -> update_user_profile.  rowcount is
\* None for a failed UPDATE (`rowcount > 0` raises) and 0 for a row that
\* already holds the values (None is returned): nothing is saved then.
save_job_seeker_profile(profile_data, dbOk) ==
    /\ current_user # NoUser
    /\ current_user.role = "job"
    /\ LET user_id == current_user.id
           row == UserUpdateRow(users[user_id], profile_data)
       IN  IF /\ validate_job_seeker_profile(profile_data.phone, profile_data.aadhaar)
              /\ dbOk
              /\ row # users[user_id]
           THEN /\ users' = [users EXCEPT ![user_id] = row]
                /\ current_user' = parsed_row(row)
           ELSE UNCHANGED <<users, current_user>>
    /\ UNCHANGED <<jobs, apps, sess, ret, jobWrites, offers, now, osess, user_ret,
                   job_seekers, noticeVars>>

\* JobDashboard.display, in a run where the Apply Now button of a posting
\* reports its click if it is rendered.
JobDashboard_display(job_id, dbOk) ==
    /\ current_user # NoUser
    /\ current_user.role = "job"
    /\ LET completion == calculate_profile_completion(current_user)
       IN  IF completion < FullCompletion
           THEN UNCHANGED vars
           ELSE ApplyNow(current_user.id, job_id, dbOk)

----------------------------------------------------------------------------
(* The inputs the calls are tried with *)

AppIdArgs == 0..MaxApps
JobIdArgs == 0..MaxJobs
OptionalJobIdArgs == {None} \cup (1..MaxJobs)
OptionalEmployerArgs == {None} \cup Employers
StatusArgs == ValidStatuses \cup {"hired"}

\* What the job dashboard sends for a posting (create_application_data), with
\* and without the two keys that save_application defaults, and the same with
\* a required key missing or None.
CompleteApplications ==
    {[create_application_data(j, u) EXCEPT !.status = st, !.applied_date = d] :
        j \in JobIds, u \in Seekers, st \in {"absent", "pending"}, d \in {Absent, now}}

IncompleteApplications ==
    LET base == [job_id |-> 1, employer_id |-> 1, applicant_id |-> 3,
                 status |-> "pending", applied_date |-> now]
    IN  {[base EXCEPT ![f] = v] : f \in RequiredFields, v \in {Absent, None}}

ApplicationInputs == CompleteApplications \cup IncompleteApplications

----------------------------------------------------------------------------
Init ==
    /\ jobs = <<>>
    /\ apps = <<>>
    /\ sess = [s \in Sessions |-> IdleSess]
    /\ ret = ""
    /\ jobWrites = <<>>
    /\ offers = <<>>
    /\ now = 0
    /\ osess = [s \in Sessions |-> NoClick]
    /\ users = <<>>
    /\ current_user = NoUser
    /\ user_ret = NoUser
    /\ job_seekers = {}
    /\ dismissed = {}
    /\ new_accepted = {}

Next ==
    \/ \E e \in Employers, t \in JobTypes, n \in 0..MaxRequired, ok \in BOOLEAN :
          add_job_posting(e, t, n, ok)
    \/ \E d \in ApplicationInputs, ok \in BOOLEAN : save_job_application(d, ok)
    \/ \E u \in Seekers, j \in JobIds, ok \in BOOLEAN : ApplyNow(u, j, ok)
    \/ \E a \in {None} \cup AppIdArgs, st \in StatusArgs, ok \in BOOLEAN :
          update_application_status(a, st, ok)
    \/ \E a \in AppIdArgs, ok \in BOOLEAN : reject_application(a, ok)
    \/ \E a \in AppIdArgs, ok \in BOOLEAN : ApplicationService_reject_application(a, ok)
    \/ \E s \in Sessions, a \in AppIdArgs, j \in JobIdArgs, e \in Employers,
          db \in DbOutcomes :
          accept_application(s, a, j, e, db)
    \/ \E s \in Sessions, a \in AppIdArgs, j \in OptionalJobIdArgs,
          e \in OptionalEmployerArgs, db \in DbOutcomes :
          ApplicationService_accept_application(s, a, j, e, db)
    \/ \E s \in Sessions, ok \in BOOLEAN : update_job(s, ok)
    \/ \E j \in JobIdArgs, e \in Employers, db \in DbOutcomes : close_job_posting(j, e, db)
    \/ \E j \in JobIdArgs, e \in Employers, db \in DbOutcomes : delete_job_posting(j, e, db)

Spec == Init /\ [][Next]_vars

\* What the offer page sends (create_offer_data), the same with any of the
\* three defaulted keys left out or with the date of an offer drafted at the
\* start, and the same with a required field that does not validate.
DatedOffers ==
    {[create_offer_data(e, u) EXCEPT !.status = st, !.offered_date = d[1], !.expires_at = d[2]] :
        e \in Employers, u \in Seekers, st \in {"absent", "pending"},
        d \in {<<now, now + OfferHours>>, <<Absent, Absent>>, <<now, Absent>>,
               <<Absent, now + OfferHours>>, <<0, OfferHours>>, <<0, Absent>>}}

InvalidOffers ==
    LET base == create_offer_data(1, 3)
    IN  {[base EXCEPT !.job_title = ""], [base EXCEPT !.location = ""],
         [base EXCEPT !.employer_id = 0], [base EXCEPT !.job_seeker_id = None],
         [base EXCEPT !.salary_offered = Absent], [base EXCEPT !.salary_offered = 0]}

OfferInputs == DatedOffers \cup InvalidOffers

OfferNext ==
    \/ \E d \in OfferInputs, ok \in BOOLEAN, t \in {now, now + 1} :
          save_job_offer(d, ok, t)
    \/ \E s \in Sessions, u \in Seekers, o \in OfferIds, st \in {"accepted", "rejected"} :
          render_active_offers(s, u, o, st)
    \/ \E s \in Sessions, o \in OfferIds, st \in {"accepted", "rejected"} :
          render_offer_card(s, o, st)
    \/ \E s \in Sessions, ok \in BOOLEAN : update_offer_status(s, ok)
    \/ Tick

OfferSpec == Init /\ [][OfferNext]_vars

\* What the signup form sends: every valid form, one with a blank name and
\* one whose passwords differ; and what a caller of the helpers sends.
ValidForms ==
    {[name |-> n, phone |-> ph, email |-> e, password |-> pw, confirm_password |-> pw] :
        n \in Names, ph \in Phones, e \in Emails, pw \in Passwords}
SignupForms ==
    ValidForms \cup
    {[name |-> " ", phone |-> "9000000001", email |-> "a@x.in",
      password |-> "Pw@1", confirm_password |-> "Pw@1"],
     [name |-> "Asha", phone |-> "9000000001", email |-> "a@x.in",
      password |-> "Pw@1", confirm_password |-> "Pw@2"]}
IdentifierArgs == Phones \cup {"", "Asha", "ASHA", "a@x.in"}
PasswordArgs == Passwords \cup {"", "PW@1"}
RoleArgs == Roles \cup {"", "admin"}

AccountNext ==
    \/ \E f \in SignupForms, r \in Roles, ok \in BOOLEAN : _handle_signup_attempt(f, r, ok)
    \/ \E i \in IdentifierArgs, p \in PasswordArgs, r \in RoleArgs, ok \in BOOLEAN :
          authenticate(i, p, r, ok)
    \/ \E i \in IdentifierArgs, p \in PasswordArgs, ok \in BOOLEAN :
          get_user_by_credentials(i, p, ok)

AccountSpec == Init /\ [][AccountNext]_vars

NoticeNext ==
    \/ \E e \in Employers, t \in JobTypes : add_job_posting(e, t, MinCandidates, TRUE)
    \/ \E u \in Seekers, j \in JobIds : ApplyNow(u, j, TRUE)
    \/ \E a \in AppIds, st \in ValidStatuses : update_application_status(a, st, TRUE)
    \/ \E u \in Seekers, failing \in SUBSET AppIds, ok \in BOOLEAN :
          render_congratulations_section(u, failing, ok)
    \/ \E u \in Seekers, a \in AppIds, failing \in SUBSET AppIds, ok \in BOOLEAN :
          show_congratulations_popup(u, a, failing, ok)
    \/ TickDay

NoticeSpec == Init /\ [][NoticeNext]_vars

\* What the pages of a job seeker send: a signup per phone, a login by phone,
\* and the profile form with the Aadhaar number, the job types or both left
\* empty, or with an Aadhaar number that does not validate.
MatchForms ==
    {[name |-> "Asha", phone |-> "9000000001", email |-> "a@x.in",
      password |-> "Pw@1", confirm_password |-> "Pw@1"],
     [name |-> "asha", phone |-> "9000000002", email |-> "b@x.in",
      password |-> "Pw@1", confirm_password |-> "Pw@1"]}
ProfileForms ==
    {[name |-> current_user.name, phone |-> current_user.phone,
      email |-> current_user.email, aadhaar |-> a, address |-> "12 MG Road",
      city |-> "Pune", experience |-> "Fresher", expected_salary |-> DefaultSalary,
      job_types |-> jt, availability |-> <<"Full Time">>] :
        a \in {"", "123412341234", "1234"}, jt \in {<<>>, <<"Cook">>}}

MatchNext ==
    \/ \E f \in MatchForms, r \in Roles : _handle_signup_attempt(f, r, TRUE)
    \/ \E i \in Phones, r \in Roles : _process_login_attempt(i, "Pw@1", r)
    \/ \E d \in ProfileForms, ok \in BOOLEAN : save_job_seeker_profile(d, ok)
    \/ \E ok \in BOOLEAN : JobSeekersDataManager_get_job_seekers(ok)
    \/ \E t \in JobTypes : add_job_posting(1, t, MinCandidates, TRUE)
    \/ \E j \in JobIds : JobDashboard_display(j, TRUE)

MatchSpec == Init /\ [][MatchNext]_vars

----------------------------------------------------------------------------
(* Properties of the hiring-slot accounting *)

\* The accepted applications of a posting.
AcceptedFor(j) == {a \in AppIds : apps[a].job_id = j /\ apps[a].status = "accepted"}

C3_StaleWriteLosesUpdate ==
    [][\A s \in Sessions :
          LET j == sess[s].job
          IN  (update_job(s, TRUE) /\ jobs[j].hired_count > sess[s].hired) =>
                 /\ jobs'[j].hired_count = sess[s].hired + 1
                 /\ jobs'[j].hired_count <= jobs[j].hired_count
                 /\ jobWrites'[j] = jobWrites[j] + 1]_vars

\* The lost update: two applications accepted and two UPDATEs of the posting
\* executed, hired_count 1.
C3_Witness ==
    \E j \in JobIds :
       /\ Cardinality(AcceptedFor(j)) = 2
       /\ jobWrites[j] = 2
       /\ jobs[j].hired_count = 1
       /\ \A s \in Sessions : sess[s].pc = "idle"

\* C4: neither accept looks at the application's status: for an application
\* that is already accepted, of an employer's own posting, the call can go on
\* to read the posting and increment hired_count again, exactly as for a
\* pending one.
C4_AcceptNotIdempotent ==
    \A s \in Sessions, a \in AppIds, j \in JobIds :
       (/\ sess[s].pc = "idle"
        /\ HiredBound(j)
        /\ apps[a].status = "accepted")
       => /\ ENABLED (/\ accept_application(s, a, j, jobs[j].user_id, "ok")
                      /\ sess'[s] = [pc |-> "update_job", job |-> j,
                                     hired |-> jobs[j].hired_count,
                                     required |-> jobs[j].required_candidates])
          /\ ENABLED (/\ ApplicationService_accept_application(s, a, j, jobs[j].user_id, "ok")
                      /\ sess'[s] = [pc |-> "update_job", job |-> j,
                                     hired |-> jobs[j].hired_count,
                                     required |-> jobs[j].required_candidates])

\* One application, accepted twice: hired_count 2.
C4_Witness ==
    \E j \in JobIds :
       /\ Len(apps) = 1
       /\ apps[1].status = "accepted"
       /\ jobWrites[j] = 2
       /\ jobs[j].hired_count = 2

\* C5: every application's status is 'pending', 'accepted' or 'rejected' after
\* every step (there is no application at the start); update_application_status with a status outside the three or an id that is
\* not a positive integer returns False and changes nothing (a step that does
\* otherwise is no such call).
C5_StatusDomain ==
    [][/\ \A a \in 1..Len(apps') : apps'[a].status \in {"pending", "accepted", "rejected"}
       /\ \/ (ret' = "False" /\ UNCHANGED <<jobs, apps>>)
          \/ ret' \notin {"True", "False", "TypeError"}
          \/ jobs' # jobs
          \/ sess' # sess
          \/ \A a \in {None} \cup AppIdArgs, st \in StatusArgs, ok \in BOOLEAN :
                (st \notin {"pending", "accepted", "rejected"} \/ a = None \/ a <= 0)
                => ~update_application_status(a, st, ok)]_vars

\* Applications in each of the two statuses an update writes, and a call that
\* returned False.
C5_Witness ==
    /\ ret = "False"
    /\ \E a, b \in AppIds : apps[a].status = "accepted" /\ apps[b].status = "rejected"

----------------------------------------------------------------------------
(* Properties of the listings and of saving an application *)

\* What a job seeker can be shown: every listing, every filter, every limit.
Listed ==
    list_all \cup fetch_employer_jobs
    \cup UNION {search(t) : t \in JobTypes \cup {""}}
    \cup UNION {get_recent(limit) : limit \in 1..(MaxJobs + 1)}

\* C8: a posting that is deleted (status # 'active'), closed (is_closed) or
\* filled (hired_count >= required_candidates) is in none of list_all, search,
\* get_recent, fetch_employer_jobs.
C8_ListingsHideClosed ==
    \A j \in JobIds :
       (\/ jobs[j].status # "active"
        \/ jobs[j].is_closed = TRUE
        \/ jobs[j].hired_count >= jobs[j].required_candidates)
       => j \notin Listed

\* A posting closed by hand with a slot left, and so not listed.
C8_Witness ==
    \E j \in JobIds :
       /\ jobs[j].is_closed /\ ~jobs[j].auto_closed
       /\ jobs[j].status = "active"
       /\ jobs[j].hired_count < jobs[j].required_candidates
       /\ j \notin Listed

\* The three ids of the dict, each present and not None.
HasIds(d) ==
    /\ d.job_id \notin {Absent, None}
    /\ d.employer_id \notin {Absent, None}
    /\ d.applicant_id \notin {Absent, None}

\* C9: save_job_application inserts a row only for data whose job_id,
\* employer_id and applicant_id are present and not None, and otherwise
\* returns False and inserts nothing (a step that does otherwise is no such
\* call); the row inserted has the ids given, the status given or 'pending'
\* when none was, and an applied_date: the one given or the present time.
C9_SaveApplication ==
    [][/\ \/ (ret' = "False" /\ apps' = apps)
          \/ ret' \notin {"True", "False", "TypeError"}
          \/ jobs' # jobs
          \/ sess' # sess
          \/ \A ok \in BOOLEAN, d \in ApplicationInputs :
                ~HasIds(d) => ~save_job_application(d, ok)
       /\ \/ apps' = apps
          \/ ret' \notin {"True", "False", "TypeError"}
          \/ jobs' # jobs
          \/ sess' # sess
          \/ \A ok \in BOOLEAN, d \in ApplicationInputs :
                save_job_application(d, ok) =>
                   LET row == apps'[Len(apps')]
                   IN  /\ HasIds(d)
                       /\ ret' = "True"
                       /\ Len(apps') = Len(apps) + 1
                       /\ \A a \in AppIds : apps'[a] = apps[a]
                       /\ row.job_id = d.job_id
                       /\ row.employer_id = d.employer_id
                       /\ row.applicant_id = d.applicant_id
                       /\ row.status = (IF d.status = "absent" THEN "pending" ELSE d.status)
                       /\ row.applied_date # None
                       /\ row.applied_date = (IF d.applied_date = Absent THEN now
                                              ELSE d.applied_date)]_vars

\* Two applications have been saved, each pending and dated.
C9_Witness ==
    /\ Len(apps) = 2
    /\ \A a \in AppIds : apps[a].status = "pending" /\ apps[a].applied_date = now
    /\ ret = "True"

\* C10: save_job_application and update_application_status return a bool for
\* every input, and False when the database call fails.
C10_ReturnsBool ==
    [][\A ok \in BOOLEAN :
          /\ \A d \in ApplicationInputs :
                save_job_application(d, ok) =>
                   (ret' \in {"True", "False"} /\ (~ok => ret' = "False"))
          /\ \A a \in {None} \cup AppIdArgs, st \in StatusArgs :
                update_application_status(a, st, ok) =>
                   (ret' \in {"True", "False"} /\ (~ok => ret' = "False"))]_vars

----------------------------------------------------------------------------
(* Properties of the offers *)

\* C6: every offer stored by save_job_offer has status 'pending' and an
\* expires_at exactly 24 hours after its offered_date, given or defaulted;
\* data that fails validate_offer_data is not stored and the call returns
\* False.
C6_StoredOfferWindow ==
    [][\A ok \in BOOLEAN, t \in {now, now + 1}, d \in OfferInputs :
          save_job_offer(d, ok, t) =>
             /\ ~validate_offer_data(d) => (ret' = "False" /\ offers' = offers)
             /\ offers' # offers =>
                   LET row == offers'[Len(offers')]
                   IN  /\ validate_offer_data(d)
                       /\ row.status = "pending"
                       /\ row.expires_at = row.offered_date + 24]_vars

\* The end of an offer's window: expires_at, or offered_date + 24h without it.
WindowEnd(offer) ==
    IF offer.expires_at # None THEN offer.expires_at ELSE offer.offered_date + 24

\* C7: no offer whose window lies in the past changes from 'pending' to
\* 'accepted' or 'rejected'.
C7_NoAnswerAfterExpiry ==
    [][\A o \in OfferIds :
          (offers[o].status = "pending" /\ offers'[o].status \in {"accepted", "rejected"})
          => ~(WindowEnd(offers[o]) < now)]_vars

----------------------------------------------------------------------------
(* Properties of the accounts *)

\* The user that a call with these arguments may return, as utils/auth.py
\* documents it.
Qualifies(u, identifier, pwd, role) ==
    /\ role \in {"job", "hire"}
    /\ u.role = role
    /\ u.password = pwd
    /\ \/ lower(identifier) = lower(u.name)
       \/ identifier = u.phone

C12_PasswordChecked ==
    [][\A e \in IdentifierArgs, p \in PasswordArgs, ok \in BOOLEAN :
          get_user_by_credentials(e, p, ok) =>
             (user_ret' # NoUser => user_ret'.password = p)]_vars

----------------------------------------------------------------------------
(* Properties of closing and deleting a posting *)

\* C13: close_job_posting(job_id, employer_id) and delete_job_posting(job_id,
\* employer_id) modify the posting only when it exists and its user_id is
\* employer_id; otherwise they return (False, 'Job not found or unauthorized')
\* and leave every posting row as it was.
C13_OwnerOnly ==
    [][\/ ret' \notin {NotFoundOrUnauthorized, ClosedSuccessfully, FailedToClose,
                       DeletedSuccessfully, FailedToDelete}
       \/ \A j \in JobIdArgs, e \in Employers, db \in DbOutcomes :
             (close_job_posting(j, e, db) \/ delete_job_posting(j, e, db)) =>
                /\ jobs' # jobs => (JobExists(j) /\ jobs[j].user_id = e)
                /\ ~(JobExists(j) /\ jobs[j].user_id = e) =>
                      (ret' = NotFoundOrUnauthorized /\ jobs' = jobs)]_vars

\* A call by an employer who does not own the posting has returned.
C13_Witness ==
    /\ ret = NotFoundOrUnauthorized
    /\ \E j \in JobIds : jobs[j].status = "active" /\ ~jobs[j].is_closed

----------------------------------------------------------------------------
(* Properties of the congratulations *)

\* C15: once mark_dismissed(user_id, job_id, app_id) has succeeded, no call of
\* get_new_accepted_applications(user_id) lists that application, whatever its
\* status and response_date have become; an accepted application that is not
\* dismissed is listed exactly when its response_date is at most 7 days back.
C15_DismissedForGood ==
    [][\A u \in Seekers, failing \in SUBSET AppIds :
          render_congratulations_section(u, failing, TRUE) =>
             \A a \in AppIds :
                /\ <<u, apps[a].job_id, a>> \in dismissed => a \notin new_accepted'
                /\ (/\ <<u, apps[a].job_id, a>> \notin dismissed
                    /\ apps[a].applicant_id = u
                    /\ apps[a].status = "accepted") =>
                      (a \in new_accepted' <=> accepted_recently(apps[a].response_date))]_vars

----------------------------------------------------------------------------
(* Properties of matching *)

\* The profile completion of the user with this id: what
\* calculate_profile_completion makes of the user that User.get returns.
ProfileCompletion(user_id) == calculate_profile_completion(User_get(user_id))

\* C16: get_job_seekers returns exactly the users with role 'job' whose
\* profile completion is 100, and a run of JobDashboard.display creates no
\* application for a user whose profile completion is below 100.
C16_CompleteProfilesOnly ==
    [][/\ JobSeekersDataManager_get_job_seekers(TRUE) =>
             job_seekers' = {i \in UserIds : /\ users[i].role = "job"
                                             /\ ProfileCompletion(i) = FullCompletion}
       /\ \A j \in JobIds :
             JobDashboard_display(j, TRUE) =>
                (ProfileCompletion(current_user.id) < FullCompletion => apps' = apps)]_vars

====
